---------------------------- MODULE Spec2Model ----------------------------
(***************************************************************************)
(* A model of the PR review agent: the unified-diff parser                 *)
(* (ReviewEngine._iter_hunks), the heuristic rule checks                   *)
(* (ReviewEngine.generate_feedback and its _check_* helpers), the          *)
(* aggregation (ReviewEngine.summarize_and_score) and the request flow of  *)
(* review_endpoint.                                                        *)
(*                                                                         *)
(* Text is modelled as a sequence of one-character strings, so that        *)
(* startswith, slicing, splitlines and the regular expressions of the      *)
(* source are computed character by character.                             *)
(***************************************************************************)
EXTENDS Integers, Sequences, FiniteSets, TLC

VARIABLES
  pc,            \* position of the run
  patch,         \* SpecDiff: the patch text handed to the engine
  file,          \* SpecDiff: the file identifier handed to the engine
  hunks,         \* SpecDiff: list(_iter_hunks(patch))
  findings,      \* SpecDiff: generate_feedback's result; SpecScore: the input
  result,        \* ReviewResult of summarize_and_score
  natural_lang,  \* Spec: review_endpoint's natural_lang
  remote,        \* Spec: what the diff fetcher will answer
  files,         \* Spec: review_endpoint's files
  idx,           \* Spec: position of the loop over files (1-based)
  all_findings,  \* Spec: review_endpoint's all_findings
  engine_calls,  \* Spec: indices of the files generate_feedback was invoked on
  agg_inputs,    \* Spec: the finding lists summarize_and_score was invoked on
  response       \* Spec: what the caller receives

vars == <<pc, patch, file, hunks, findings, result, natural_lang, remote,
          files, idx, all_findings, engine_calls, agg_inputs, response>>

---------------------------------------------------------------------------
(* Bounds of the model *)

MaxLines == 3
MaxFindings == 4
MaxFiles == 3

---------------------------------------------------------------------------
(* Python values *)

\* Optional[int] None of ReviewFinding.line and of the hunk triples
None == -1

Min(a, b) == IF a <= b THEN a ELSE b
Max(a, b) == IF a >= b THEN a ELSE b

---------------------------------------------------------------------------
(* Characters and the primitives of str and re *)

DigitSeq == <<"0", "1", "2", "3", "4", "5", "6", "7", "8", "9">>
Digit == {DigitSeq[k] : k \in 1..10}
Upper == {"A", "B", "C", "D", "E", "F", "G", "H", "I", "J", "K", "L", "M",
          "N", "O", "P", "Q", "R", "S", "T", "U", "V", "W", "X", "Y", "Z"}
Lower == {"a", "b", "c", "d", "e", "f", "g", "h", "i", "j", "k", "l", "m",
          "n", "o", "p", "q", "r", "s", "t", "u", "v", "w", "x", "y", "z"}
\* \w
WordCh == Upper \cup Lower \cup Digit \cup {"_"}
\* \s (the vertical tab has no TLA+ literal; no input of the model holds one)
SpaceCh == {" ", "\t", "\n", "\r", "\f"}

\* s[i] of a 1-based position, "" outside the text
Ch(s, i) == IF i \in 1..Len(s) THEN s[i] ELSE ""

\* the literal lit occurs in s at position i
HasAt(s, i, lit) ==
  /\ i >= 1
  /\ i + Len(lit) - 1 <= Len(s)
  /\ \A k \in 1..Len(lit) : s[i + k - 1] = lit[k]

\* str.startswith
StartsWith(s, lit) == HasAt(s, 1, lit)

\* "lit in s"
Contains(s, lit) == \E i \in 1..Len(s) : HasAt(s, i, lit)

\* the position after the longest run of characters of class at position i
RECURSIVE RunEnd(_, _, _)
RunEnd(s, i, class) ==
  IF i <= Len(s) /\ s[i] \in class THEN RunEnd(s, i + 1, class) ELSE i

\* \b at position i: between s[i-1] and s[i]
WordBoundary(s, i) == (Ch(s, i - 1) \in WordCh) # (Ch(s, i) \in WordCh)

\* re.search(r"\b<lit>", s), and with a closing \b
SearchWordStart(s, lit) ==
  \E i \in 1..Len(s) : HasAt(s, i, lit) /\ WordBoundary(s, i)
WordAt(s, i, lit) ==
  HasAt(s, i, lit) /\ WordBoundary(s, i) /\ WordBoundary(s, i + Len(lit))
SearchWord(s, lit) == \E i \in 1..Len(s) : WordAt(s, i, lit)

\* int() of the digits s[i..j-1]
RECURSIVE ParseInt(_, _, _)
ParseInt(s, i, j) ==
  IF j <= i THEN 0
  ELSE 10 * ParseInt(s, i, j - 1)
       + (CHOOSE d \in 0..9 : DigitSeq[d + 1] = s[j - 1])

\* the first position >= i of s that holds character c, Len(s) + 1 when none
RECURSIVE Find(_, _, _)
Find(s, i, c) == IF i <= Len(s) /\ s[i] # c THEN Find(s, i + 1, c) ELSE i

\* str.splitlines on "\n": no empty last line after a final newline
RECURSIVE Splitlines(_)
Splitlines(t) ==
  IF t = <<>> THEN <<>>
  ELSE LET k == Find(t, 1, "\n")
       IN <<SubSeq(t, 1, k - 1)>> \o Splitlines(SubSeq(t, k + 1, Len(t)))

\* str.rstrip() and the width of the leading run of blanks, len(t) - len(t.lstrip(" "))
RECURSIVE Rstrip(_)
Rstrip(t) ==
  IF t # <<>> /\ t[Len(t)] \in SpaceCh THEN Rstrip(SubSeq(t, 1, Len(t) - 1))
  ELSE t
LeadingBlanks(t) == RunEnd(t, 1, {" "}) - 1

---------------------------------------------------------------------------
(* ReviewEngine._iter_hunks *)

HunkMarker == <<"@", "@", " ">>

\* One attempt of r"@@ -\d+(?:,\d+)? \+(\d+)(?:,(\d+))? @@" at position i:
\* <<group 1 as an integer>> on a match, <<>> otherwise.  Each \d+ is
\* followed by a non-digit, so the longest run is the only way to match.
OptCommaDigits(s, k) ==
  IF Ch(s, k) = "," /\ Ch(s, k + 1) \in Digit THEN RunEnd(s, k + 1, Digit) ELSE k
HeaderMatchAt(s, i) ==
  IF ~(HasAt(s, i, <<"@", "@", " ", "-">>) /\ Ch(s, i + 4) \in Digit) THEN <<>>
  ELSE LET a == OptCommaDigits(s, RunEnd(s, i + 4, Digit)) IN
       IF ~(HasAt(s, a, <<" ", "+">>) /\ Ch(s, a + 2) \in Digit) THEN <<>>
       ELSE LET b == RunEnd(s, a + 2, Digit)
                c == OptCommaDigits(s, b)
            IN IF HasAt(s, c, <<" ", "@", "@">>)
               THEN <<ParseInt(s, a + 2, b)>> ELSE <<>>

\* right_start = int(m.group(1)) if m else 1, m the leftmost match of re.search
HeaderStart(line) ==
  LET at == {i \in 1..Len(line) : HeaderMatchAt(line, i) # <<>>} IN
  IF at = {} THEN 1
  ELSE HeaderMatchAt(line, CHOOSE i \in at : \A j \in at : i <= j)[1]

\* line.startswith("@@ ")
\* (IsHunkHeader_WellFormedOnly: the variant that takes only a header the
\* pattern matches for a header, against which C10 is tested)
IsHunkHeader_WellFormedOnly(line) ==
  StartsWith(line, HunkMarker)
  /\ \E i \in 1..Len(line) : HeaderMatchAt(line, i) # <<>>
IsHunkHeader(line) == StartsWith(line, HunkMarker)

\* The body of the inner loop: the triple appended for line l and the
\* counter after it.
\* (ConsumeLine_ContextKeepsCounter: the variant whose context branch
\* misses right_lineno += 1, against which C3 is tested)
ConsumeLine_ContextKeepsCounter(l, right_lineno) ==
  IF StartsWith(l, <<"+">>)
  THEN [entry |-> [op |-> "+", txt |-> Tail(l), ln |-> right_lineno],
        right_lineno |-> right_lineno + 1]
  ELSE IF StartsWith(l, <<"-">>)
  THEN [entry |-> [op |-> "-", txt |-> Tail(l), ln |-> None],
        right_lineno |-> right_lineno]
  ELSE [entry |-> [op |-> " ",
                   txt |-> IF StartsWith(l, <<" ">>) THEN Tail(l) ELSE l,
                   ln |-> right_lineno],
        right_lineno |-> right_lineno]
ConsumeLine(l, right_lineno) ==
  IF StartsWith(l, <<"+">>)
  THEN [entry |-> [op |-> "+", txt |-> Tail(l), ln |-> right_lineno],
        right_lineno |-> right_lineno + 1]
  ELSE IF StartsWith(l, <<"-">>)
  THEN [entry |-> [op |-> "-", txt |-> Tail(l), ln |-> None],
        right_lineno |-> right_lineno]
  ELSE [entry |-> [op |-> " ",
                   txt |-> IF StartsWith(l, <<" ">>) THEN Tail(l) ELSE l,
                   ln |-> right_lineno],
        right_lineno |-> right_lineno + 1]

\* while i < len(lines) and not lines[i].startswith("@@ "): the hunk and
\* the position the loop ends with
RECURSIVE InnerLoop(_, _, _, _)
InnerLoop(lines, i, hunk, right_lineno) ==
  IF i <= Len(lines) /\ ~IsHunkHeader(lines[i])
  THEN LET r == ConsumeLine(lines[i], right_lineno)
       IN InnerLoop(lines, i + 1, Append(hunk, r.entry), r.right_lineno)
  ELSE [i |-> i, hunk |-> hunk]

\* while i < len(lines): the (hunk, right_start) pairs yielded from position i
RECURSIVE OuterLoop(_, _)
OuterLoop(lines, i) ==
  IF i > Len(lines) THEN <<>>
  ELSE IF IsHunkHeader(lines[i])
  THEN LET right_start == HeaderStart(lines[i])
           r == InnerLoop(lines, i + 1,
                          <<[op |-> "@", txt |-> lines[i], ln |-> None]>>,
                          right_start)
       IN <<[hunk |-> r.hunk, right_start |-> right_start]>>
          \o OuterLoop(lines, r.i)
  ELSE OuterLoop(lines, i + 1)

IterHunks(p) == OuterLoop(Splitlines(p), 1)

---------------------------------------------------------------------------
(* The regular expressions of the heuristics *)

\* every character of s from position i on is in \s
OnlySpaceFrom(s, i) == RunEnd(s, i, SpaceCh) = Len(s) + 1

\* re.match(r"\s*def\s+\w+\(.*\):\s*$", txt)
ReDef(txt) ==
  LET a == RunEnd(txt, 1, SpaceCh)
      b == RunEnd(txt, a + 3, SpaceCh)
      c == RunEnd(txt, b, WordCh)
  IN /\ HasAt(txt, a, <<"d", "e", "f">>)
     /\ b > a + 3
     /\ c > b
     /\ Ch(txt, c) = "("
     /\ \E j \in (c + 1)..Len(txt) :
          HasAt(txt, j, <<")", ":">>) /\ OnlySpaceFrom(txt, j + 2)

\* re.match(r"\s*class\s+\w+\s*\(?\w*\)?:\s*$", txt)
ReClass(txt) ==
  LET a == RunEnd(txt, 1, SpaceCh)
      b == RunEnd(txt, a + 5, SpaceCh)
      c == RunEnd(txt, b, WordCh)
      d == RunEnd(txt, c, SpaceCh)
      e == IF Ch(txt, d) = "(" THEN d + 1 ELSE d
      f == RunEnd(txt, e, WordCh)
      g == IF Ch(txt, f) = ")" THEN f + 1 ELSE f
  IN /\ HasAt(txt, a, <<"c", "l", "a", "s", "s">>)
     /\ b > a + 5
     /\ c > b
     /\ Ch(txt, g) = ":"
     /\ OnlySpaceFrom(txt, g + 1)

\* re.search(r"\b(TODO|FIXME|XXX)\b", txt)
ReTodo(txt) ==
  \/ SearchWord(txt, <<"T", "O", "D", "O">>)
  \/ SearchWord(txt, <<"F", "I", "X", "M", "E">>)
  \/ SearchWord(txt, <<"X", "X", "X">>)

\* r".*<kw>\s*=\s*<val>" from position j on
ReKeywordAfter(txt, j, kw, val) ==
  \E k \in j..Len(txt) :
    LET m == RunEnd(txt, k + Len(kw), SpaceCh)
        n == RunEnd(txt, m + 1, SpaceCh)
    IN HasAt(txt, k, kw) /\ Ch(txt, m) = "=" /\ HasAt(txt, n, val)

\* re.search(r"subprocess\.[A-Za-z_]+\(.*shell\s*=\s*True", txt)
ReSubprocessShell(txt) ==
  \E i \in 1..Len(txt) :
    LET j == RunEnd(txt, i + 11, Upper \cup Lower \cup {"_"}) IN
    /\ HasAt(txt, i, <<"s", "u", "b", "p", "r", "o", "c", "e", "s", "s", ".">>)
    /\ j > i + 11
    /\ Ch(txt, j) = "("
    /\ ReKeywordAfter(txt, j + 1, <<"s", "h", "e", "l", "l">>,
                      <<"T", "r", "u", "e">>)

\* re.search(r"requests\.get\(.*verify\s*=\s*False", txt)
ReRequestsNoVerify(txt) ==
  \E i \in 1..Len(txt) :
    /\ HasAt(txt, i, <<"r", "e", "q", "u", "e", "s", "t", "s", ".", "g", "e", "t", "(">>)
    /\ ReKeywordAfter(txt, i + 13, <<"v", "e", "r", "i", "f", "y">>,
                      <<"F", "a", "l", "s", "e">>)

\* INSECURE_PATTERNS, in order: [i] is pat.search(txt) of the i-th pattern
InsecureMatches(txt) ==
  << SearchWordStart(txt, <<"e", "v", "a", "l", "(">>),
     SearchWordStart(txt, <<"e", "x", "e", "c", "(">>),
     ReSubprocessShell(txt),
     Contains(txt, <<"p", "i", "c", "k", "l", "e", ".", "l", "o", "a", "d", "s", "(">>),
     ReRequestsNoVerify(txt) >>

InsecureMessages ==
  << "Avoid eval(): code injection risk.",
     "Avoid exec(): security & maintainability risk.",
     "subprocess with shell=True is dangerous; prefer list args.",
     "Untrusted pickle.loads can RCE; consider safer formats.",
     "TLS verification disabled; restore verify=True." >>

\* re.I: the lower-case form of a character
UpperSeq == <<"A", "B", "C", "D", "E", "F", "G", "H", "I", "J", "K", "L", "M",
              "N", "O", "P", "Q", "R", "S", "T", "U", "V", "W", "X", "Y", "Z">>
LowerSeq == <<"a", "b", "c", "d", "e", "f", "g", "h", "i", "j", "k", "l", "m",
              "n", "o", "p", "q", "r", "s", "t", "u", "v", "w", "x", "y", "z">>
ToLower(c) ==
  IF c \in Upper THEN LowerSeq[CHOOSE k \in 1..26 : UpperSeq[k] = c] ELSE c
HasAtI(s, i, lit) ==
  /\ i >= 1
  /\ i + Len(lit) - 1 <= Len(s)
  /\ \A k \in 1..Len(lit) : ToLower(s[i + k - 1]) = lit[k]

\* [A-Za-z0-9_\-]
TokenCh == Upper \cup Lower \cup Digit \cup {"_", "-"}

SecretNames ==
  { <<"a", "p", "i", "_", "k", "e", "y">>, <<"a", "p", "i", "k", "e", "y">>,
    <<"s", "e", "c", "r", "e", "t">>,
    <<"p", "a", "s", "s", "w", "o", "r", "d">> }

\* SECRET_PATTERNS, in order: [i] is pat.search(txt) of the i-th pattern
SecretMatches(txt) ==
  << \E i \in 1..Len(txt) :
        /\ HasAt(txt, i, <<"A", "K", "I", "A">>)
        /\ RunEnd(txt, i + 4, Digit \cup Upper) - (i + 4) >= 16,
     \E i \in 1..Len(txt) : \E name \in SecretNames :
        LET a == RunEnd(txt, i + Len(name), SpaceCh)
            b == RunEnd(txt, a + 1, SpaceCh)
            c == IF Ch(txt, b) \in {"'", "\""} THEN b + 1 ELSE b
        IN /\ HasAtI(txt, i, name)
           /\ Ch(txt, a) \in {":", "="}
           /\ RunEnd(txt, c, TokenCh) - c >= 12,
     \E i \in 1..Len(txt) : \E alg \in {<<"R", "S", "A">>, <<"D", "S", "A">>, <<"E", "C">>} :
        /\ HasAt(txt, i, <<"-", "-", "-", "-", "-", "B", "E", "G", "I", "N", " ">>)
        /\ HasAt(txt, i + 11, alg)
        /\ HasAt(txt, i + 11 + Len(alg),
                 <<" ", "P", "R", "I", "V", "A", "T", "E", " ", "K", "E", "Y",
                   "-", "-", "-", "-", "-">>) >>

\* re.search(r"\b\d{3,}\b", txt)
ReLongNumber(txt) ==
  \E i \in 1..Len(txt) :
    LET j == RunEnd(txt, i, Digit) IN
    WordBoundary(txt, i) /\ j - i >= 3 /\ WordBoundary(txt, j)

\* re.search(r"(0x[0-9a-fA-F]+|[A-Z_]{3,})", txt)
ReHexOrConstant(txt) ==
  \E i \in 1..Len(txt) :
    \/ /\ HasAt(txt, i, <<"0", "x">>)
       /\ Ch(txt, i + 2) \in Digit \cup {"a", "b", "c", "d", "e", "f",
                                          "A", "B", "C", "D", "E", "F"}
    \/ RunEnd(txt, i, Upper \cup {"_"}) - i >= 3

ControlKeywords ==
  { <<"i", "f">>, <<"f", "o", "r">>, <<"w", "h", "i", "l", "e">>,
    <<"t", "r", "y">>, <<"w", "i", "t", "h">>,
    <<"e", "x", "c", "e", "p", "t">>, <<"m", "a", "t", "c", "h">>,
    <<"c", "a", "s", "e">> }

\* len(re.findall(r"\b(if|for|while|try|with|except|match|case)\b", txt)):
\* a match is a whole word, so matches never overlap and each starts at
\* its own position
\* (CountKeywords_PerLine: the variant that counts a line once however many
\* keywords it holds, against which C6 is tested)
CountKeywords_PerLine(txt) ==
  IF \E i \in 1..Len(txt) : \E kw \in ControlKeywords : WordAt(txt, i, kw)
  THEN 1 ELSE 0
CountKeywords(txt) ==
  Cardinality({i \in 1..Len(txt) : \E kw \in ControlKeywords : WordAt(txt, i, kw)})

---------------------------------------------------------------------------
(* The heuristics.  The em dash of three messages of the source is written *)
(* ": " here.                                                              *)

ReviewFinding(f, line, feedback, severity, rule) ==
  [file |-> f, line |-> line, feedback |-> feedback, severity |-> severity,
   rule |-> rule]

\* the concatenation of F(x) over the elements x of s, in order
RECURSIVE FlatMap(_, _)
FlatMap(F(_), s) ==
  IF s = <<>> THEN <<>> ELSE F(Head(s)) \o FlatMap(F, Tail(s))

\* the findings of flags[i] = TRUE, in order, made by Make(i)
PerPattern(flags, Make(_)) ==
  FlatMap(LAMBDA i : IF flags[i] THEN <<Make(i)>> ELSE <<>>,
          [i \in 1..Len(flags) |-> i])

MissingDoc(f, e) ==
  ReviewFinding(f, e.ln, "Public defs/classes should start with a docstring.",
                "info", "missing-doc")

\* _check_missing_docstrings (CheckMissingDocstrings_AnyOp: the variant
\* without the test op == "+", against which C4 is tested)
CheckMissingDocstrings_AnyOp(f, hunk) ==
  FlatMap(LAMBDA e : IF ReDef(e.txt) \/ ReClass(e.txt)
                     THEN <<MissingDoc(f, e)>> ELSE <<>>,
          hunk)
CheckMissingDocstrings(f, hunk) ==
  FlatMap(LAMBDA e : IF e.op = "+" /\ (ReDef(e.txt) \/ ReClass(e.txt))
                     THEN <<MissingDoc(f, e)>> ELSE <<>>,
          hunk)

CheckTodos(f, added) ==
  FlatMap(LAMBDA a :
            IF ReTodo(a.txt)
            THEN <<ReviewFinding(f, a.ln,
                     "Leftover TODO/FIXME found: consider resolving before merge.",
                     "info", "todo")>>
            ELSE <<>>,
          added)

CheckInsecure(f, added) ==
  FlatMap(LAMBDA a :
            PerPattern(InsecureMatches(a.txt),
                       LAMBDA i : ReviewFinding(f, a.ln, InsecureMessages[i],
                                                "error", "insecure")),
          added)

CheckSecrets(f, added) ==
  FlatMap(LAMBDA a :
            PerPattern(SecretMatches(a.txt),
                       LAMBDA i : ReviewFinding(f, a.ln,
                         "Potential secret detected; remove from code and rotate credentials.",
                         "error", "secrets")),
          added)

StyleChecks(txt) ==
  << Len(txt) > 120,
     Rstrip(txt) # txt,
     Contains(txt, <<"\t">>),
     SearchWordStart(txt, <<"p", "r", "i", "n", "t", "(">>),
     ReLongNumber(txt) /\ ~ReHexOrConstant(txt) >>

StyleMessages ==
  << [feedback |-> "Line exceeds 120 chars.", severity |-> "warn"],
     [feedback |-> "Trailing whitespace.", severity |-> "info"],
     [feedback |-> "Tab character found; prefer spaces.", severity |-> "info"],
     [feedback |-> "Avoid print() in production; use logging.", severity |-> "info"],
     [feedback |-> "Magic number: consider named constant.", severity |-> "info"] >>

CheckStyle(f, added) ==
  FlatMap(LAMBDA a :
            PerPattern(StyleChecks(a.txt),
                       LAMBDA i : ReviewFinding(f, a.ln, StyleMessages[i].feedback,
                                                StyleMessages[i].severity, "style")),
          added)

\* the entries of the hunk with op == "+"
RECURSIVE PlusEntries(_)
PlusEntries(hunk) ==
  IF hunk = <<>> THEN <<>>
  ELSE (IF Head(hunk).op = "+" THEN <<Head(hunk)>> ELSE <<>>)
       \o PlusEntries(Tail(hunk))

\* added_ops and max_nesting after the loop over the hunk
RECURSIVE AddedOps(_)
AddedOps(plus) ==
  IF plus = <<>> THEN 0
  ELSE CountKeywords(Head(plus).txt) + AddedOps(Tail(plus))
RECURSIVE MaxNesting(_)
MaxNesting(plus) ==
  IF plus = <<>> THEN 0
  ELSE Max(LeadingBlanks(Head(plus).txt) \div 4, MaxNesting(Tail(plus)))

\* next((ln for (op, _t, ln) in hunk if op == "+" and ln is not None), None)
RECURSIVE FirstAddedLine(_)
FirstAddedLine(hunk) ==
  IF hunk = <<>> THEN None
  ELSE IF Head(hunk).op = "+" /\ Head(hunk).ln # None THEN Head(hunk).ln
  ELSE FirstAddedLine(Tail(hunk))

\* added_ops >= 6 or max_nesting >= 3
LooksComplex(hunk) ==
  AddedOps(PlusEntries(hunk)) >= 6 \/ MaxNesting(PlusEntries(hunk)) >= 3

CheckComplexity(f, hunk) ==
  IF LooksComplex(hunk)
  THEN <<ReviewFinding(f, FirstAddedLine(hunk),
           "High logical complexity detected: consider refactoring.",
           "warn", "complexity")>>
  ELSE <<>>

\* added_lines = [(ln, txt) for (op, txt, ln) in hunk if op == "+" and ln is not None]
AddedLines(hunk) ==
  FlatMap(LAMBDA e : IF e.op = "+" /\ e.ln # None
                     THEN <<[ln |-> e.ln, txt |-> e.txt]>> ELSE <<>>,
          hunk)

\* the body of generate_feedback's loop: the findings of one hunk
HunkFindings(f, hunk) ==
  LET added_lines == AddedLines(hunk) IN
  CheckMissingDocstrings(f, hunk)
  \o CheckTodos(f, added_lines)
  \o CheckInsecure(f, added_lines)
  \o CheckSecrets(f, added_lines)
  \o CheckStyle(f, added_lines)
  \o CheckComplexity(f, hunk)

GenerateFeedback(diff_text, f) ==
  FlatMap(LAMBDA h : HunkFindings(f, h.hunk), IterHunks(diff_text))


---------------------------------------------------------------------------
(* ReviewEngine.summarize_and_score *)

\* str(n) of an integer, as its characters
RECURSIVE Str(_)
Str(n) ==
  IF n < 0 THEN <<"-">> \o Str(0 - n)
  ELSE IF n < 10 THEN <<DigitSeq[n + 1]>>
  ELSE Str(n \div 10) \o <<DigitSeq[(n % 10) + 1]>>

\* sep.join(parts), parts a list of texts
RECURSIVE Join(_, _)
Join(sep, parts) ==
  IF parts = <<>> THEN <<>>
  ELSE IF Len(parts) = 1 THEN parts[1]
  ELSE parts[1] \o sep \o Join(sep, Tail(parts))

\* penalties.get(rule, 3)
\* (Penalty_NoTextDiffUnlisted: the variant whose table misses
\* "no-text-diff", against which C8 is tested)
Penalty_NoTextDiffUnlisted(rule) ==
  CASE rule = "secrets" -> 40
    [] rule = "insecure" -> 25
    [] rule = "complexity" -> 10
    [] rule = "style" -> 5
    [] rule = "missing-doc" -> 6
    [] rule = "todo" -> 2
    [] OTHER -> 3
Penalty(rule) ==
  CASE rule = "secrets" -> 40
    [] rule = "insecure" -> 25
    [] rule = "complexity" -> 10
    [] rule = "style" -> 5
    [] rule = "missing-doc" -> 6
    [] rule = "todo" -> 2
    [] rule = "no-text-diff" -> 0
    [] OTHER -> 3

\* by_rule after the loop over the findings: the dict as the list of its
\* items, in insertion order
RECURSIVE ByRule(_)
ByRule(fs) ==
  IF fs = <<>> THEN <<>>
  ELSE LET before == ByRule(SubSeq(fs, 1, Len(fs) - 1))
           rule == fs[Len(fs)].rule
       IN IF \E k \in 1..Len(before) : before[k].rule = rule
          THEN [k \in 1..Len(before) |->
                  IF before[k].rule = rule
                  THEN [rule |-> rule, count |-> before[k].count + 1]
                  ELSE before[k]]
          ELSE Append(before, [rule |-> rule, count |-> 1])

\* min(90, p * count)
\* (RuleDeduction_Uncapped: the variant without the cap, against which C2
\* is tested)
RuleDeduction_Uncapped(rule, count) == Penalty(rule) * count
RuleDeduction(rule, count) == Min(90, Penalty(rule) * count)

\* score after the loop over by_rule.items()
RECURSIVE Deduct(_, _)
Deduct(score, by_rule) ==
  IF by_rule = <<>> THEN score
  ELSE Deduct(score - RuleDeduction(Head(by_rule).rule, Head(by_rule).count),
              Tail(by_rule))

\* max(0, min(100, score))
\* (Clamp_NoFloor: the variant without max(0, ...), against which C1 is
\* tested)
Clamp_NoFloor(score) == Min(100, score)
Clamp(score) == Max(0, Min(100, score))

\* sorted(by_rule.items(), key=lambda x: -x[1]): stable, descending count
RECURSIVE SortedByCount(_)
SortedByCount(by_rule) ==
  IF by_rule = <<>> THEN <<>>
  ELSE LET before == SortedByCount(SubSeq(by_rule, 1, Len(by_rule) - 1))
           x == by_rule[Len(by_rule)]
           n == Cardinality({k \in 1..Len(before) : before[k].count >= x.count})
       IN SubSeq(before, 1, n) \o <<x>> \o SubSeq(before, n + 1, Len(before))

\* by_rule.get(rule)
Present(by_rule, rule) ==
  \E k \in 1..Len(by_rule) : by_rule[k].rule = rule /\ by_rule[k].count # 0

SecretsSentence ==
  "I spotted potential secrets: please remove them and use env vars or a vault."
InsecureSentence ==
  "There are a few security risks (eval/exec, shell=True, etc.)."
MissingDocSentence ==
  "Some new functions/classes lack docstrings; add short explanations."
ComplexitySentence ==
  "A few blocks look complex or deeply nested; refactor for clarity."
StyleSentence ==
  "Minor style issues (long lines, trailing spaces, magic numbers)."
PositiveSentence ==
  "Looks clean overall. Nice job keeping changes readable and safe!"

\* nl_bits: the sentences, each a text of one piece
\* (NlBits_DiscoveryOrder: the variant that appends the sentences in the
\* order the rules were found, against which C7 is tested)
NlBits_DiscoveryOrder(by_rule) ==
  LET Sentence(rule) ==
        CASE rule = "secrets" -> <<<<SecretsSentence>>>>
          [] rule = "insecure" -> <<<<InsecureSentence>>>>
          [] rule = "missing-doc" -> <<<<MissingDocSentence>>>>
          [] rule = "complexity" -> <<<<ComplexitySentence>>>>
          [] rule = "style" -> <<<<StyleSentence>>>>
          [] OTHER -> <<>>
      bits == FlatMap(LAMBDA x : Sentence(x.rule), by_rule)
  IN IF bits = <<>> THEN <<<<PositiveSentence>>>> ELSE bits
NlBits(by_rule) ==
  LET bits ==
        (IF Present(by_rule, "secrets") THEN <<<<SecretsSentence>>>> ELSE <<>>)
        \o (IF Present(by_rule, "insecure") THEN <<<<InsecureSentence>>>> ELSE <<>>)
        \o (IF Present(by_rule, "missing-doc") THEN <<<<MissingDocSentence>>>> ELSE <<>>)
        \o (IF Present(by_rule, "complexity") THEN <<<<ComplexitySentence>>>> ELSE <<>>)
        \o (IF Present(by_rule, "style") THEN <<<<StyleSentence>>>> ELSE <<>>)
  IN IF bits = <<>> THEN <<<<PositiveSentence>>>> ELSE bits

\* f" Overall code health score: {score}/100."
ScoreSentence(score) ==
  <<" Overall code health score: ">> \o Str(score) \o <<"/100.">>

SummarizeAndScore(fs) ==
  LET by_rule == ByRule(fs)
      score == Clamp(Deduct(100, by_rule))
      parts == <<(<<"Total findings: ">> \o Str(Len(fs)) \o <<". Score: ">>
                  \o Str(score) \o <<"/100.">>)>>
               \o [k \in 1..Len(by_rule) |->
                     LET x == SortedByCount(by_rule)[k]
                     IN <<x.rule, ": ">> \o Str(x.count)]
  IN [score |-> score,
      summary |-> Join(<<" | ">>, parts),
      summary_natural |-> Join(<<" ">>, NlBits(by_rule)) \o ScoreSentence(score)]

---------------------------------------------------------------------------
(* Inputs *)

\* "@@ -1 +3 @@"
L_hdr == <<"@", "@", " ", "-", "1", " ", "+", "3", " ", "@", "@">>
\* "@@ -7,2 +12,3 @@"
L_hdr12 ==
  <<"@", "@", " ", "-", "7", ",", "2", " ", "+", "1", "2", ",", "3", " ", "@", "@">>
\* "@@ x": a header the pattern does not match
L_hdrBad == <<"@", "@", " ", "x">>
\* "+def f():"
L_def == <<"+", "d", "e", "f", " ", "f", "(", ")", ":">>
\* "+    '''d'''"
L_doc == <<"+", " ", " ", " ", " ", "'", "'", "'", "d", "'", "'", "'">>
\* "+class C:"
L_class == <<"+", "c", "l", "a", "s", "s", " ", "C", ":">>
\* "-def g():"
L_delDef == <<"-", "d", "e", "f", " ", "g", "(", ")", ":">>
\* " x"
L_ctx == <<" ", "x">>
\* "" (a context line whose blank was stripped)
L_empty == <<>>
\* "+++ b/f"
L_plus3 == <<"+", "+", "+", " ", "b", "/", "f">>
\* "--- a/f"
L_minus3 == <<"-", "-", "-", " ", "a", "/", "f">>
\* "+[a for a in b if a if b]"
L_kw3 ==
  <<"+", "[", "a", " ", "f", "o", "r", " ", "a", " ", "i", "n", " ", "b", " ",
    "i", "f", " ", "a", " ", "i", "f", " ", "b", "]">>
\* "+            eval(secret='TODO-56789012') "
L_deep ==
  <<"+", " ", " ", " ", " ", " ", " ", " ", " ", " ", " ", " ", " ",
    "e", "v", "a", "l", "(", "s", "e", "c", "r", "e", "t", "=", "'",
    "T", "O", "D", "O", "-", "5", "6", "7", "8", "9", "0", "1", "2", "'", ")", " ">>
\* "-            eval(secret='TODO-56789012') "
L_delDeep == <<"-">> \o Tail(L_deep)
\* "+password = 'abcdef123456'"
L_secret ==
  <<"+", "p", "a", "s", "s", "w", "o", "r", "d", " ", "=", " ", "'",
    "a", "b", "c", "d", "e", "f", "1", "2", "3", "4", "5", "6", "'">>
\* "+x = 1"
L_clean == <<"+", "x", " ", "=", " ", "1">>
\* "@@ -1,2 +1,3 @@"
L_hdrA ==
  <<"@", "@", " ", "-", "1", ",", "2", " ", "+", "1", ",", "3", " ", "@", "@">>

LinePool ==
  { L_hdr, L_hdr12, L_hdrBad, L_def, L_doc, L_class, L_delDef, L_ctx, L_empty,
    L_plus3, L_minus3, L_kw3, L_deep, L_delDeep }

\* the sequences over S of length at most n
SeqsUpTo(S, n) == UNION {[1..k -> S] : k \in 0..n}

\* the text of the lines ls, each ended by a newline but, unless final_nl,
\* the last one
RECURSIVE TextOf(_, _)
TextOf(ls, final_nl) ==
  IF ls = <<>> THEN <<>>
  ELSE IF Len(ls) = 1 THEN ls[1] \o (IF final_nl THEN <<"\n">> ELSE <<>>)
  ELSE ls[1] \o <<"\n">> \o TextOf(Tail(ls), final_nl)

Patches ==
  {TextOf(ls, nl) : ls \in SeqsUpTo(LinePool, MaxLines), nl \in BOOLEAN}

RuleIds ==
  { "secrets", "insecure", "complexity", "style", "missing-doc", "todo",
    "no-text-diff", "license" }

FindingLists ==
  { [k \in 1..Len(rs) |-> ReviewFinding("a.py", None, "feedback", "info", rs[k])] :
      rs \in SeqsUpTo(RuleIds, MaxFindings) }

\* one element of the fetcher's list: f.get("filename", "") and f.get("patch"),
\* has_patch FALSE when the key is absent or null
ChangedFile(filename, has_patch, p) ==
  [filename |-> filename, has_patch |-> has_patch, patch |-> p]

FilePool ==
  { ChangedFile("a.py", TRUE, TextOf(<<L_hdrA, L_secret>>, TRUE)),
    ChangedFile("b.py", TRUE, TextOf(<<L_hdr, L_def, L_doc>>, FALSE)),
    ChangedFile("c.py", TRUE, TextOf(<<L_hdr, L_clean>>, FALSE)),
    ChangedFile("d.png", FALSE, <<>>),
    ChangedFile("e.bin", FALSE, <<>>),
    ChangedFile("f.txt", TRUE, <<>>) }

FileLists == SeqsUpTo(FilePool, MaxFiles)

---------------------------------------------------------------------------
(* SpecDiff: the engine on one patch *)

NoResult == [score |-> 100, summary |-> <<>>, summary_natural |-> <<>>]
NoResponse == [status_code |-> 0]

Idle ==
  /\ natural_lang = FALSE
  /\ remote = [ok |-> FALSE, files |-> <<>>]
  /\ files = <<>>
  /\ idx = 0
  /\ all_findings = <<>>
  /\ engine_calls = <<>>
  /\ agg_inputs = <<>>
  /\ response = NoResponse

InitDiff ==
  /\ pc = "input"
  /\ patch \in Patches
  /\ file = "a.py"
  /\ hunks = <<>>
  /\ findings = <<>>
  /\ result = NoResult
  /\ Idle

\* list(engine._iter_hunks(patch))
Parse ==
  /\ pc = "input"
  /\ pc' = "parsed"
  /\ hunks' = IterHunks(patch)
  /\ UNCHANGED <<patch, file, findings, result, natural_lang, remote, files,
                 idx, all_findings, engine_calls, agg_inputs, response>>

\* engine.generate_feedback(patch, file); hunks records the hunks its loop
\* ran over
Evaluate ==
  /\ pc = "input"
  /\ pc' = "evaluated"
  /\ hunks' = IterHunks(patch)
  /\ findings' = GenerateFeedback(patch, file)
  /\ UNCHANGED <<patch, file, result, natural_lang, remote, files,
                 idx, all_findings, engine_calls, agg_inputs, response>>

NextDiff == Parse \/ Evaluate

SpecDiff == InitDiff /\ [][NextDiff]_vars

---------------------------------------------------------------------------
(* SpecScore: the aggregation of one finding list *)

InitScore ==
  /\ pc = "input"
  /\ patch = <<>>
  /\ file = "a.py"
  /\ hunks = <<>>
  /\ findings \in FindingLists
  /\ result = NoResult
  /\ Idle

\* engine.summarize_and_score(findings)
Aggregate ==
  /\ pc = "input"
  /\ pc' = "scored"
  /\ result' = SummarizeAndScore(findings)
  /\ UNCHANGED <<patch, file, hunks, findings, natural_lang, remote, files,
                 idx, all_findings, engine_calls, agg_inputs, response>>

NextScore == Aggregate

SpecScore == InitScore /\ [][NextScore]_vars

---------------------------------------------------------------------------
(* Spec: review_endpoint *)

\* "if not files"
\* (NoFiles_Never: the variant without the early return, against which C9
\* is tested)
NoFiles_Never(fs) == FALSE
NoFiles(fs) == fs = <<>>

\* "if not patch": the key is absent or null, or the text is empty
NoPatch(f) == ~f.has_patch \/ f.patch = <<>>

NoTextDiff(filename) ==
  ReviewFinding(filename, None,
    "File changed but no textual patch available (binary/large file). Consider manual review.",
    "info", "no-text-diff")

\* the "comments" and "inline_comments" of the response
Comments(fs) ==
  [k \in 1..Len(fs) |->
     [file |-> fs[k].file, line |-> fs[k].line, feedback |-> fs[k].feedback]]
InlineComments(fs) ==
  FlatMap(LAMBDA x : IF x.line # None
                     THEN <<[path |-> x.file, side |-> "RIGHT", line |-> x.line,
                             body |-> x.feedback]>>
                     ELSE <<>>,
          fs)

Init ==
  /\ pc = "fetch"
  /\ patch = <<>>
  /\ file = ""
  /\ hunks = <<>>
  /\ findings = <<>>
  /\ result = NoResult
  /\ natural_lang \in BOOLEAN
  /\ remote \in {[ok |-> FALSE, files |-> <<>>]}
                \cup {[ok |-> TRUE, files |-> fs] : fs \in FileLists}
  /\ files = <<>>
  /\ idx = 0
  /\ all_findings = <<>>
  /\ engine_calls = <<>>
  /\ agg_inputs = <<>>
  /\ response = NoResponse

\* fetch_pr_files raises: HTTPException(status_code=502)
FetchFails ==
  /\ pc = "fetch"
  /\ ~remote.ok
  /\ pc' = "http_error"
  /\ response' = [status_code |-> 502, detail |-> "GitHub API error"]
  /\ UNCHANGED <<patch, file, hunks, findings, result, natural_lang, remote,
                 files, idx, all_findings, engine_calls, agg_inputs>>

\* fetch_pr_files returns no file: the fixed response
ReturnNoFiles ==
  /\ pc = "fetch"
  /\ remote.ok
  /\ NoFiles(remote.files)
  /\ files' = remote.files
  /\ pc' = "done"
  /\ response' = [status_code |-> 200,
                  summary |-> <<"No changed files found in this PR.">>,
                  score |-> 100,
                  comments |-> <<>>,
                  inline_comments |-> <<>>]
  /\ UNCHANGED <<patch, file, hunks, findings, result, natural_lang, remote,
                 idx, all_findings, engine_calls, agg_inputs>>

\* fetch_pr_files returns files: the loop starts
StartReview ==
  /\ pc = "fetch"
  /\ remote.ok
  /\ ~NoFiles(remote.files)
  /\ files' = remote.files
  /\ pc' = "loop"
  /\ idx' = 1
  /\ all_findings' = <<>>
  /\ UNCHANGED <<patch, file, hunks, findings, result, natural_lang, remote,
                 engine_calls, agg_inputs, response>>

\* one turn of the loop, for a file without a patch
SkipFileWithoutPatch ==
  /\ pc = "loop"
  /\ idx <= Len(files)
  /\ NoPatch(files[idx])
  /\ all_findings' = Append(all_findings, NoTextDiff(files[idx].filename))
  /\ idx' = idx + 1
  /\ UNCHANGED <<pc, patch, file, hunks, findings, result, natural_lang, remote,
                 files, engine_calls, agg_inputs, response>>

\* one turn of the loop, for a file with a patch
ReviewFile ==
  /\ pc = "loop"
  /\ idx <= Len(files)
  /\ ~NoPatch(files[idx])
  /\ findings' = GenerateFeedback(files[idx].patch, files[idx].filename)
  /\ engine_calls' = Append(engine_calls, idx)
  /\ all_findings' = all_findings \o findings'
  /\ idx' = idx + 1
  /\ UNCHANGED <<pc, patch, file, hunks, result, natural_lang, remote,
                 files, agg_inputs, response>>

\* after the loop: summarize_and_score and the response
Respond ==
  /\ pc = "loop"
  /\ idx > Len(files)
  /\ result' = SummarizeAndScore(all_findings)
  /\ agg_inputs' = Append(agg_inputs, all_findings)
  /\ response' = [status_code |-> 200,
                  summary |-> IF natural_lang THEN result'.summary_natural
                              ELSE result'.summary,
                  score |-> result'.score,
                  comments |-> Comments(all_findings),
                  inline_comments |-> InlineComments(all_findings)]
  /\ pc' = "done"
  /\ UNCHANGED <<patch, file, hunks, findings, natural_lang, remote, files,
                 idx, all_findings, engine_calls>>

Next ==
  \/ FetchFails
  \/ ReturnNoFiles
  \/ StartReview
  \/ SkipFileWithoutPatch
  \/ ReviewFile
  \/ Respond

Spec == Init /\ [][Next]_vars

---------------------------------------------------------------------------
(* Properties of summarize_and_score, checked under SpecScore *)

\* the number of findings of fs with rule r
CountOf(fs, r) == Cardinality({k \in 1..Len(fs) : fs[k].rule = r})
RulesOf(fs) == {fs[k].rule : k \in 1..Len(fs)}

\* the sum of F(r) over the rules r of R
RECURSIVE SumOver(_, _)
SumOver(F(_), R) ==
  IF R = {} THEN 0
  ELSE LET r == CHOOSE x \in R : TRUE IN F(r) + SumOver(F, R \ {r})

\* the penalty table as the specification states it
StatedPenalty(r) ==
  IF r = "secrets" THEN 40 ELSE IF r = "insecure" THEN 25
  ELSE IF r = "complexity" THEN 10 ELSE IF r = "style" THEN 5
  ELSE IF r = "missing-doc" THEN 6 ELSE IF r = "todo" THEN 2
  ELSE IF r = "no-text-diff" THEN 0 ELSE 3

StatedScore(fs) ==
  LET raw == 100 - SumOver(LAMBDA r : LET d == StatedPenalty(r) * CountOf(fs, r)
                                      IN IF d > 90 THEN 90 ELSE d,
                           RulesOf(fs))
  IN IF raw < 0 THEN 0 ELSE IF raw > 100 THEN 100 ELSE raw

\* C1: for every finding list, the score summarize_and_score returns is an
\* integer between 0 and 100.
C1_ScoreBounds == pc = "scored" => result.score \in 0..100

\* a finding list whose deductions exceed 100 was scored, and scored 0
C1_Witness ==
  /\ pc = "scored"
  /\ StatedPenalty("secrets") * CountOf(findings, "secrets")
       + StatedPenalty("insecure") * CountOf(findings, "insecure") > 100
  /\ result.score = 0

\* C2: for every finding list, the score is 100 minus, for each distinct
\* rule present, min(90, penalty * count), clamped to [0, 100], with the
\* stated penalties and 3 for a rule outside the table; a single secrets
\* finding scores 60.
C2_ScoreFormula ==
  pc = "scored" =>
    /\ result.score = StatedScore(findings)
    /\ ([k \in 1..Len(findings) |-> findings[k].rule] = <<"secrets">>
          => result.score = 60)

\* three secrets findings (capped at 90) and one finding of a rule outside
\* the table were scored 100 - 90 - 3
C2_Witness ==
  /\ pc = "scored"
  /\ CountOf(findings, "secrets") = 3
  /\ CountOf(findings, "license") = 1
  /\ result.score = 7

NarrativeRules == <<"secrets", "insecure", "missing-doc", "complexity", "style">>
NarrativeSentence(r) ==
  IF r = "secrets" THEN SecretsSentence
  ELSE IF r = "insecure" THEN InsecureSentence
  ELSE IF r = "missing-doc" THEN MissingDocSentence
  ELSE IF r = "complexity" THEN ComplexitySentence
  ELSE StyleSentence

\* the sentences of the narrative rules present in fs, in the fixed order
PresentSentences(fs) ==
  LET at == {k \in 1..5 : NarrativeRules[k] \in RulesOf(fs)}
      Nth(n) == CHOOSE k \in at : Cardinality({j \in at : j < k}) = n - 1
  IN [n \in 1..Cardinality(at) |-> <<NarrativeSentence(NarrativeRules[Nth(n)])>>]

\* C7 as stated: the positive sentence stands in place of the rule
\* sentences when, and only when, no rule fired at all.
C7_Original ==
  pc = "scored" =>
    result.summary_natural =
      Join(<<" ">>, IF findings = <<>> THEN <<<<PositiveSentence>>>>
                    ELSE PresentSentences(findings))
      \o ScoreSentence(result.score)

\* C7 (amended): summary_natural is the space-joined sentences of those of
\* secrets, insecure, missing-doc, complexity, style that are present, in
\* that fixed order whatever the order of the findings; the positive
\* sentence in their place when, and only when, none of these five rules is
\* present (findings of todo, no-text-diff or an unlisted rule do not
\* suppress it); and finally the overall score sentence.  The empty list
\* scores 100.
C7_SummaryNatural ==
  pc = "scored" =>
    /\ result.summary_natural =
         Join(<<" ">>, IF PresentSentences(findings) = <<>>
                       THEN <<<<PositiveSentence>>>>
                       ELSE PresentSentences(findings))
         \o ScoreSentence(result.score)
    /\ (findings = <<>> => result.score = 100)

\* style was found before secrets, and the narrative opens with the
\* secrets sentence
C7_Witness ==
  /\ pc = "scored"
  /\ Len(findings) >= 3
  /\ findings[1].rule = "style"
  /\ findings[2].rule = "todo"
  /\ findings[3].rule = "secrets"
  /\ result.summary_natural[1] = SecretsSentence
  /\ result.summary_natural[3] = StyleSentence

---------------------------------------------------------------------------
(* Properties of _iter_hunks, checked under SpecDiff *)

Parsed == pc \in {"parsed", "evaluated"}

\* the right-side start each header of the inputs declares, 1 for the
\* header that declares none
DeclaredStart(header) ==
  IF header = L_hdr THEN 3 ELSE IF header = L_hdr12 THEN 12 ELSE 1

\* the line numbers of the added and context lines of a hunk, in hunk order
RECURSIVE RightNumbers(_)
RightNumbers(hunk) ==
  IF hunk = <<>> THEN <<>>
  ELSE (IF Head(hunk).op \in {"+", " "} THEN <<Head(hunk).ln>> ELSE <<>>)
       \o RightNumbers(Tail(hunk))

\* C3: in every hunk, the right-side line numbers of the added and context
\* lines, in hunk order, are strictly increasing and start at the start the
\* header declares, or at 1 when the header's start cannot be parsed.
C3_LineNumbers ==
  Parsed =>
    \A k \in 1..Len(hunks) :
      LET nums == RightNumbers(hunks[k].hunk) IN
      /\ \A i \in 1..Len(nums) : \A j \in 1..Len(nums) :
           i < j => nums[i] < nums[j]
      /\ nums # <<>> => nums[1] = DeclaredStart(hunks[k].hunk[1].txt)

\* a hunk whose header declares 12 holds a context line and an added
\* line, numbered 12 and 13
C3_Witness ==
  /\ pc = "parsed"
  /\ \E k \in 1..Len(hunks) :
       /\ hunks[k].hunk[1].txt = L_hdr12
       /\ Len(hunks[k].hunk) = 3
       /\ hunks[k].hunk[2].op = " "
       /\ hunks[k].hunk[3].op = "+"
       /\ RightNumbers(hunks[k].hunk) = <<12, 13>>

\* the positions of the hunk headers among lines
HeaderAt(lines) ==
  {i \in 1..Len(lines) : StartsWith(lines[i], <<"@", "@", " ">>)}
\* the n-th of the positions at, in ascending order
NthOf(at, n) == CHOOSE i \in at : Cardinality({j \in at : j < i}) = n - 1
\* the position after the last line of the hunk opened at position i
HunkEnd(at, i, len) ==
  IF \E j \in at : j > i
  THEN CHOOSE j \in at : j > i /\ \A m \in at : m > i => j <= m
  ELSE len + 1

\* the op and the text a line of a hunk is classified with
OpOf(l) ==
  IF l # <<>> /\ l[1] = "+" THEN "+"
  ELSE IF l # <<>> /\ l[1] = "-" THEN "-" ELSE " "
TextOfLine(l) ==
  IF l # <<>> /\ l[1] \in {"+", "-", " "} THEN SubSeq(l, 2, Len(l)) ELSE l

\* each header opens exactly one hunk, which holds exactly the lines from
\* its header up to the next header or the end, in input order, each
\* classified as add, remove or context
HunksCoverLines ==
  LET lines == Splitlines(patch)
      at == HeaderAt(lines)
  IN /\ Len(hunks) = Cardinality(at)
     /\ \A n \in 1..Len(hunks) :
          LET i == NthOf(at, n)
              h == hunks[n].hunk
          IN /\ Len(h) = HunkEnd(at, i, Len(lines)) - i
             /\ h[1].op = "@" /\ h[1].txt = lines[i]
             /\ \A j \in 2..Len(h) :
                  /\ h[j].op = OpOf(lines[i + j - 1])
                  /\ h[j].txt = TextOfLine(lines[i + j - 1])

FileHeaderLines == {L_plus3, L_minus3}

\* C10 as stated: file-header lines ('--- a/...', '+++ b/...') never appear
\* inside any yielded hunk, wherever they occur in the patch.
C10_Original ==
  Parsed =>
    /\ HunksCoverLines
    /\ \A n \in 1..Len(hunks) : \A j \in 2..Len(hunks[n].hunk) :
         <<hunks[n].hunk[j].op>> \o hunks[n].hunk[j].txt \notin FileHeaderLines

\* C10 (amended): parse skips every line before the first hunk header, so
\* the file-header preamble never appears in a hunk; each line starting
\* with '@@ ' opens exactly one hunk, which consists of exactly the lines
\* that follow its header up to the next header or the end of input, in
\* input order, each classified as add, remove or context.  A '--- ' or
\* '+++ ' line after a hunk header is therefore part of that hunk, as a
\* removed or an added line.
C10_HunkLines ==
  Parsed =>
    /\ HunksCoverLines
    /\ \A n \in 1..Len(hunks) : \A j \in 2..Len(hunks[n].hunk) :
         hunks[n].hunk[j].op \in {"+", "-", " "}

\* '+++ b/f' before the first header was skipped, the same line after the
\* header is an added line of the hunk
C10_Witness ==
  /\ pc = "parsed"
  /\ Splitlines(patch) = <<L_plus3, L_hdrBad, L_plus3>>
  /\ Len(hunks) = 1
  /\ Len(hunks[1].hunk) = 2
  /\ hunks[1].hunk[2] = [op |-> "+", txt |-> Tail(L_plus3), ln |-> 1]

---------------------------------------------------------------------------
(* Properties of generate_feedback, checked under SpecDiff *)

\* the patch without its removed lines
WithoutRemovedLines(p) ==
  LET lines == Splitlines(p)
      Keep(l) == ~(l # <<>> /\ l[1] = "-")
  IN TextOf(SelectSeq(lines, Keep), FALSE)

\* the line numbers of the added lines of a hunk
AddedNumbers(hunk) ==
  {hunk[j].ln : j \in {i \in 1..Len(hunk) : hunk[i].op = "+"}}

\* C4: generate_feedback never produces a finding derived from a removed
\* line: removed lines carry no right-side line number, the findings are
\* those of the patch without its removed lines, and every finding's line
\* is the line number of an added line of the hunk that produced it, or
\* absent.
C4_NoFindingFromRemoved ==
  pc = "evaluated" =>
    /\ \A k \in 1..Len(hunks) : \A j \in 1..Len(hunks[k].hunk) :
         hunks[k].hunk[j].op = "-" => hunks[k].hunk[j].ln = None
    /\ findings = GenerateFeedback(WithoutRemovedLines(patch), file)
    /\ \A k \in 1..Len(hunks) :
         LET fs == HunkFindings(file, hunks[k].hunk) IN
         \A n \in 1..Len(fs) :
           fs[n].line = None \/ fs[n].line \in AddedNumbers(hunks[k].hunk)

\* a hunk with a removed definition and an added one: the only finding is
\* that of the added line
C4_Witness ==
  /\ pc = "evaluated"
  /\ Splitlines(patch) = <<L_hdr, L_delDef, L_def>>
  /\ Len(findings) = 1
  /\ findings[1].rule = "missing-doc"
  /\ findings[1].line = 3

\* a documentation line: its text, after its indentation, opens a docstring
IsDocLine(txt) ==
  LET a == RunEnd(txt, 1, SpaceCh) IN
  HasAt(txt, a, <<"'", "'", "'">>) \/ HasAt(txt, a, <<"\"", "\"", "\"">>)

\* entry j of the hunk is immediately followed by a documentation line
DocFollows(hunk, j) ==
  /\ j < Len(hunk)
  /\ hunk[j + 1].op \in {"+", " "}
  /\ IsDocLine(hunk[j + 1].txt)

\* the definition signatures among the inputs
SignatureTexts == {Tail(L_def), Tail(L_delDef), Tail(L_class)}

\* C5: a missing-doc finding (severity info, at the line's number) is
\* emitted for an added line exactly when the line is a function or class
\* signature with no documentation line immediately attached; a signature
\* whose documentation line immediately follows it yields none.
C5_MissingDoc ==
  pc = "evaluated" =>
    \A k \in 1..Len(hunks) :
      LET h == hunks[k].hunk
          fs == HunkFindings(file, h)
      IN \A j \in 1..Len(h) :
           h[j].op = "+" =>
             ((\E n \in 1..Len(fs) :
                 /\ fs[n].rule = "missing-doc"
                 /\ fs[n].severity = "info"
                 /\ fs[n].line = h[j].ln)
              <=> (h[j].txt \in SignatureTexts /\ ~DocFollows(h, j)))

\* the control-flow keywords and the indentation of the inputs: among
\* them only L_kw3 holds keywords (for, if, if), and only L_deep is
\* indented by 12 blanks or more
KeywordOccurrences(txt) == IF txt = Tail(L_kw3) THEN 3 ELSE 0
DeeplyIndented(txt) == txt = Tail(L_deep)

RECURSIVE SumSeq(_)
SumSeq(s) == IF s = <<>> THEN 0 ELSE Head(s) + SumSeq(Tail(s))

\* the complexity findings generate_feedback makes for a hunk
ComplexityFindings(hunk) ==
  SelectSeq(HunkFindings(file, hunk), LAMBDA x : x.rule = "complexity")

\* one complexity finding, at the first added line, when Triggered, and
\* none otherwise
ComplexityIff(hunk, Triggered) ==
  LET plus == PlusEntries(hunk)
      cs == ComplexityFindings(hunk)
  IN IF Triggered
     THEN /\ Len(cs) = 1
          /\ plus # <<>>
          /\ cs[1].line = plus[1].ln
          /\ cs[1].severity = "warn"
     ELSE cs = <<>>

\* C6 as stated: the trigger counts the added lines that match a keyword.
C6_Original ==
  pc = "evaluated" =>
    \A k \in 1..Len(hunks) :
      LET plus == PlusEntries(hunks[k].hunk) IN
      ComplexityIff(hunks[k].hunk,
        \/ Cardinality({j \in 1..Len(plus) :
                          KeywordOccurrences(plus[j].txt) > 0}) >= 6
        \/ \E j \in 1..Len(plus) : DeeplyIndented(plus[j].txt))

\* C6 (amended): for each hunk, exactly one complexity finding is emitted
\* if the number of control-flow keyword occurrences in its added lines,
\* every occurrence on a line counted, is >= 6 or some added line has
\* floor(leading blanks / 4) >= 3, and none otherwise; the finding is
\* attributed to the first added line of the hunk and is never duplicated.
C6_Complexity ==
  pc = "evaluated" =>
    \A k \in 1..Len(hunks) :
      LET plus == PlusEntries(hunks[k].hunk) IN
      ComplexityIff(hunks[k].hunk,
        \/ SumSeq([j \in 1..Len(plus) |-> KeywordOccurrences(plus[j].txt)]) >= 6
        \/ \E j \in 1..Len(plus) : DeeplyIndented(plus[j].txt))

\* two added lines with three keywords each: one complexity finding, at
\* the first of them
C6_Witness ==
  /\ pc = "evaluated"
  /\ Splitlines(patch) = <<L_hdr, L_kw3, L_kw3>>
  /\ Len(findings) = 1
  /\ findings[1].rule = "complexity"
  /\ findings[1].line = 3

---------------------------------------------------------------------------
(* Properties of review_endpoint, checked under Spec *)

\* the patch of a changed file is absent
PatchAbsent(f) == ~f.has_patch

\* the score of the review of the changed files fs
ReviewScore(fs) ==
  IF fs = <<>> THEN 100
  ELSE SummarizeAndScore(
         FlatMap(LAMBDA f : IF NoPatch(f) THEN <<NoTextDiff(f.filename)>>
                            ELSE GenerateFeedback(f.patch, f.filename),
                 fs)).score

\* C8: a changed file whose patch is absent never reaches the rule engine
\* and gets exactly one finding, of rule no-text-diff, without a line,
\* with the file's identifier; the final score is the score the review
\* would have without the files whose patch is absent, however many.
C8_AbsentPatch ==
  /\ \A k \in 1..Len(engine_calls) : ~PatchAbsent(files[engine_calls[k]])
  /\ pc = "done" =>
       /\ \A i \in 1..Len(files) :
            PatchAbsent(files[i]) =>
              LET mine == {k \in 1..Len(all_findings) :
                             all_findings[k].file = files[i].filename}
                  same == {j \in 1..Len(files) :
                             files[j].filename = files[i].filename}
              IN /\ Cardinality(mine) = Cardinality(same)
                 /\ \A k \in mine : /\ all_findings[k].rule = "no-text-diff"
                                    /\ all_findings[k].line = None
       /\ response.score = ReviewScore(SelectSeq(files, LAMBDA f : ~PatchAbsent(f)))

\* two files without a patch around the file with the secret: the score is
\* that of the secret alone
C8_Witness ==
  /\ pc = "done"
  /\ Len(files) = 3
  /\ PatchAbsent(files[1]) /\ ~PatchAbsent(files[2]) /\ PatchAbsent(files[3])
  /\ files[2].filename = "a.py"
  /\ engine_calls = <<2>>
  /\ Len(all_findings) = 3
  /\ response.score = 60

NoFilesResponse ==
  [status_code |-> 200,
   summary |-> <<"No changed files found in this PR.">>,
   score |-> 100,
   comments |-> <<>>,
   inline_comments |-> <<>>]

\* C9: the fetch decides the outcome.  A failed fetch ends in the
\* fetch-failure error alone: no review result, no finding.  A fetched
\* empty list yields the fixed summary, score 100 and empty comment lists
\* without the rule engine or the aggregation.  Only a fetched non-empty
\* list reaches the per-file evaluation, and the aggregation runs once, on
\* the complete finding set, after every file.
C9_Outcomes ==
  /\ ~remote.ok =>
       /\ pc \in {"fetch", "http_error"}
       /\ pc = "http_error" => response.status_code = 502
       /\ all_findings = <<>> /\ engine_calls = <<>> /\ agg_inputs = <<>>
  /\ pc = "http_error" => ~remote.ok
  /\ (remote.ok /\ remote.files = <<>>) =>
       /\ pc \in {"fetch", "done"}
       /\ pc = "done" => response = NoFilesResponse
       /\ all_findings = <<>> /\ engine_calls = <<>> /\ agg_inputs = <<>>
  /\ (remote.ok /\ remote.files # <<>>) =>
       /\ pc \in {"fetch", "loop", "done"}
       /\ Len(agg_inputs) <= 1
       /\ agg_inputs # <<>> <=> pc = "done"
       /\ pc = "done" =>
            /\ idx = Len(files) + 1
            /\ agg_inputs = <<all_findings>>
            /\ response.status_code = 200
            /\ response.score = result.score
            /\ Len(response.comments) = Len(all_findings)
            /\ response # NoFilesResponse

\* the fetch returned no file and the fixed response was given
C9_Witness ==
  /\ pc = "done"
  /\ remote.ok
  /\ remote.files = <<>>
  /\ response.summary = <<"No changed files found in this PR.">>
  /\ response.score = 100

===========================================================================
